---- MODULE Spec2Model ----
(***************************************************************************)
(* Model of ingest_missing.py: the interval expander (date_list), the      *)
(* ledger class (PreviousIngests), the replay executor (playback) and the  *)
(* run coordinator (main).                                                 *)
(***************************************************************************)
EXTENDS Integers, Sequences, FiniteSets, TLC

VARIABLES
    dl_pc,        \* date_list harness: "ready" before the call, "returned" after
    dl_first,     \* date_list argument first_date
    dl_second,    \* date_list argument second_date
    dl_out,       \* the list date_list returned
    files,        \* the working directory: file name -> pickled content
    ledger,       \* PreviousIngests.previous_ingests of the live object
    ops,          \* the calls made on the ledger so far, with their outcomes
    pc,           \* main: where the run is
    run,          \* main: the number of this run
    exc,          \* main: the exception that ended the run
    previous_ingests,   \* main's local previous_ingests
    cabled,       \* Cabled.cabled_drivers_raw
    refdes_list,  \* main's local refdes_list
    acq_i,        \* main: index of the first loop in refdes_list
    missing_data_dict,  \* main's local missing_data_dict
    it_rest,      \* main: keys of missing_data_dict the second loop has not visited
    it_ref,       \* main: refdes of the second loop
    it_dates,     \* main: missing dates of it_ref not yet visited
    submitted,    \* main: the calls of playback made in this run
    pb_pc,        \* playback: where the call is
    pb_refdes,    \* playback argument refdes
    pb_dates,     \* playback argument missing_dates
    dirs,         \* the labels for which the directory glob of pb_refdes matches
    driver,       \* playback's local driver
    reader_list,  \* playback's local reader_list
    reader_i,     \* playback: index of the outer loop in reader_list
    date_i,       \* playback: index of the inner loop in missing_dates
    alarm,        \* whether a SIGALRM is pending (signal.alarm armed)
    invoked,      \* the playback commands started, in order, as <<reader, date>>
    children,     \* indices in invoked of the external processes still running
    warned,       \* indices in invoked of the commands whose timeout was logged
    pb_exc,       \* the exception that left playback
    cat_pc,       \* catalog harness: "ready" before request_cabled_raw, "loaded" after
    cat_raw       \* the table pd.read_csv returned

dl_vars == <<dl_pc, dl_first, dl_second, dl_out>>
lg_vars == <<ledger, ops>>
main_vars == <<pc, run, exc, previous_ingests, refdes_list, acq_i,
               missing_data_dict, it_rest, it_ref, it_dates, submitted>>
pb_vars == <<pb_pc, pb_refdes, pb_dates, dirs, driver, reader_list, reader_i, date_i,
             alarm, invoked, children, warned, pb_exc>>
cat_vars == <<cat_pc, cat_raw>>

vars == <<dl_pc, dl_first, dl_second, dl_out, files, ledger, ops,
          pc, run, exc, previous_ingests, cabled, refdes_list, acq_i,
          missing_data_dict, it_rest, it_ref, it_dates, submitted,
          pb_pc, pb_refdes, pb_dates, dirs, driver, reader_list, reader_i, date_i,
          alarm, invoked, children, warned, pb_exc, cat_pc, cat_raw>>

\* the values a part of the state keeps while another part is exercised
DatesIdle ==
    /\ dl_pc = "idle"
    /\ dl_first = <<0, 0, 0, 0>>
    /\ dl_second = <<0, 0, 0, 0>>
    /\ dl_out = <<>>

LedgerIdle ==
    /\ ledger = <<>>
    /\ ops = <<>>

CatalogIdle ==
    /\ cat_pc = "idle"
    /\ cat_raw = <<>>

MainIdle ==
    /\ pc = "idle"
    /\ run = 0
    /\ exc = "none"
    /\ previous_ingests = <<>>
    /\ refdes_list = <<>>
    /\ acq_i = 1
    /\ missing_data_dict = <<>>
    /\ it_rest = {}
    /\ it_ref = "none"
    /\ it_dates = <<>>
    /\ submitted = <<>>

PlaybackIdle ==
    /\ pb_pc = "idle"
    /\ pb_refdes = "none"
    /\ pb_dates = <<>>
    /\ dirs = {}
    /\ driver = "none"
    /\ reader_list = <<>>
    /\ reader_i = 1
    /\ date_i = 1
    /\ alarm = FALSE
    /\ invoked = <<>>
    /\ children = {}
    /\ warned = {}
    /\ pb_exc = "none"

----------------------------------------------------------------------------
(* Timestamps.  A timestamp string 'YYYY-MM-DD HH:MM:SS' is the tuple        *)
(* <<day, hour, minute, second>>, where day stands for the zero-padded       *)
(* 'YYYY-MM-DD' prefix (an ordinal day number: the prefix compares as the    *)
(* date does).  A datetime is a number of seconds.  A label 'YYYYMMDDTHH'    *)
(* is the tuple <<day, hour>>.                                               *)

\* last ordinal day the inputs are drawn from (days 0..MaxDay)
MaxDay == 1

SecondsPerMinute == 60
MinutesPerHour == 60
HoursPerDay == 24
SecondsPerHour == SecondsPerMinute * MinutesPerHour
SecondsPerDay == SecondsPerHour * HoursPerDay

SampleHours == {0, 1, 23}
SampleMinutes == {0, 30}
SampleSeconds == {0, 59}
Days == 0..MaxDay
Timestamps == Days \X SampleHours \X SampleMinutes \X SampleSeconds

\* str < str of two timestamp strings: lexicographic, field by field
StrLess(a, b) ==
    \E i \in 1..4 : /\ a[i] < b[i]
                    /\ \A j \in 1..(i - 1) : a[j] = b[j]

\* datetime.strptime(s, '%Y-%m-%d %H:%M:%S')
strptime(s) ==
    ((s[1] * HoursPerDay + s[2]) * MinutesPerHour + s[3]) * SecondsPerMinute + s[4]

\* datetime.strftime('%Y%m%dT%H'): the minutes and seconds are dropped
strftime(t) == <<t \div SecondsPerDay, (t \div SecondsPerHour) % HoursPerDay>>

\* the hour a label names, counted from day 0 hour 0
LabelHour(label) == label[1] * HoursPerDay + label[2]

----------------------------------------------------------------------------
(* date_list                                                                 *)

start_of(first_date, second_date) ==
    IF StrLess(first_date, second_date) THEN first_date ELSE second_date

end_of(first_date, second_date) ==
    IF StrLess(first_date, second_date) THEN second_date ELSE first_date

\* variants of the loop condition: one that stops an hour short of end_date,
\* one that runs once more when date_time has reached end_date
LoopStopsOneEarly(date_time, end_date) == date_time + SecondsPerHour < end_date

LoopIncludesEnd(date_time, end_date) == date_time <= end_date

\* while date_time < end_date
LoopContinues(date_time, end_date) == date_time < end_date

RECURSIVE date_list_loop(_, _, _)
date_list_loop(date_time, end_date, date_times) ==
    IF LoopContinues(date_time, end_date)
    THEN date_list_loop(date_time + SecondsPerHour, end_date,
                        Append(date_times, strftime(date_time + SecondsPerHour)))
    ELSE date_times

date_list(first_date, second_date) ==
    LET start_date == strptime(start_of(first_date, second_date))
        end_date == strptime(end_of(first_date, second_date))
    IN date_list_loop(start_date, end_date, <<strftime(start_date)>>)

----------------------------------------------------------------------------
(* Dictionaries and the pickle files.  A dict is a function whose domain is  *)
(* its key set; a list is a sequence.                                        *)

EmptyDict == <<>>

NoFiles == <<>>

\* the name load_previous_ingests opens, and the one main tests with isfile
LoadFileName == "previous_ingest.pickle"

\* the name write_previous_ingests opens
WriteFileName == "previous_ingests.pickle"

\* pickle.dump / pickle.load of a dict of lists of tuples
pickle_dump(obj) == [pickled |-> obj]
pickle_load(bytes) == bytes.pickled

\* open(name, "wb") followed by dump: the file is created or truncated
WriteFile(fs, name, bytes) ==
    [n \in (DOMAIN fs) \cup {name} |-> IF n = name THEN bytes ELSE fs[n]]

\* x in list
InList(x, list) == \E i \in 1..Len(list) : list[i] = x

\* list.count(x)
Count(x, list) == Cardinality({i \in 1..Len(list) : list[i] = x})

----------------------------------------------------------------------------
(* class PreviousIngests                                                     *)

\* the intervals the ledger calls and the gap reporter draw from
T0 == <<0, 0, 0, 0>>
T1 == <<0, 1, 0, 0>>
T2 == <<0, 2, 30, 0>>
GapIntervals == {<<T0, T1>>, <<T1, T2>>}

Refs == {"RS01SLBS-LJ01A-05-HYDLFA", "RS01SBPS-PC01A-06-VADCPA"}
RefA == "RS01SLBS-LJ01A-05-HYDLFA"
RefB == "RS01SBPS-PC01A-06-VADCPA"

\* __init__
PreviousIngests_init == EmptyDict

\* the except KeyError branch: self.previous_ingests[refdes].append(missing_date)
\* looks the missing key up again, so the KeyError leaves the method
KeyErrorHandler(mapping, refdes, missing_date) ==
    [outcome |-> "KeyError", previous_ingests |-> mapping]

\* is_in_previous_ingests(self, refdes, missing_date): what it returns or
\* raises, and self.previous_ingests afterwards
is_in_previous_ingests(mapping, refdes, missing_date) ==
    IF refdes \in DOMAIN mapping
    THEN IF InList(missing_date, mapping[refdes])
         THEN [outcome |-> "True", previous_ingests |-> mapping]
         ELSE [outcome |-> "False",
               previous_ingests |->
                   [mapping EXCEPT ![refdes] = Append(@, missing_date)]]
    ELSE KeyErrorHandler(mapping, refdes, missing_date)

\* load_previous_ingests(self): the unpickled object is dropped, the method
\* returns None; a missing file raises IOError.  self is not touched.
load_previous_ingests(fs) ==
    IF LoadFileName \in DOMAIN fs THEN "None" ELSE "IOError"

\* the mapping stored under the name the tool writes (nothing stored: empty)
Stored(fs) ==
    IF WriteFileName \in DOMAIN fs THEN pickle_load(fs[WriteFileName]) ELSE EmptyDict

\* every entry of mapping a is an entry of mapping b
Keeps(a, b) ==
    \A r \in DOMAIN a :
        /\ r \in DOMAIN b
        /\ \A i \in 1..Len(a[r]) : InList(a[r][i], b[r])

\* write_previous_ingests(self, previous_ingests): dumps its argument
write_previous_ingests(fs, mapping) ==
    WriteFile(fs, WriteFileName, pickle_dump(mapping))

----------------------------------------------------------------------------
(* The ledger class on its own: one object per process, any order of calls.  *)

\* how many calls the history keeps
MaxOps == 3

\* the mappings a caller hands to write_previous_ingests
ArgMappings ==
    { EmptyDict,
      [r \in {RefA} |-> <<<<T0, T1>>>>],
      [r \in {RefA, RefB} |-> <<<<T0, T1>>, <<T1, T2>>>>] }

\* the working directory a process may start in: nothing there, or a file
\* under the name the load path reads
InitFiles ==
    { NoFiles,
      [n \in {LoadFileName} |-> pickle_dump([r \in {RefA} |-> <<<<T0, T1>>>>])] }

LedgerInit ==
    /\ ledger = PreviousIngests_init
    /\ ops = <<>>
    /\ files \in InitFiles
    /\ DatesIdle
    /\ MainIdle
    /\ cabled = <<>>
    /\ PlaybackIdle
    /\ CatalogIdle

Gate ==
    /\ Len(ops) < MaxOps
    /\ \E refdes \in Refs, missing_date \in GapIntervals :
        LET r == is_in_previous_ingests(ledger, refdes, missing_date) IN
        /\ ledger' = r.previous_ingests
        /\ ops' = Append(ops, [op |-> "gate", refdes |-> refdes,
                               missing_date |-> missing_date,
                               was_in |-> /\ refdes \in DOMAIN ledger
                                          /\ InList(missing_date, ledger[refdes]),
                               outcome |-> r.outcome,
                               after |-> r.previous_ingests])
    /\ UNCHANGED <<files, cabled, dl_vars, main_vars, pb_vars, cat_vars>>

Load ==
    /\ Len(ops) < MaxOps
    /\ ops' = Append(ops, [op |-> "load", outcome |-> load_previous_ingests(files),
                           after |-> ledger])
    /\ UNCHANGED <<ledger, files, cabled, dl_vars, main_vars, pb_vars, cat_vars>>

Persist ==
    /\ Len(ops) < MaxOps
    /\ \E m \in ArgMappings \cup {ledger} :
        /\ files' = write_previous_ingests(files, m)
        /\ ops' = Append(ops, [op |-> "write", arg |-> m])
    /\ UNCHANGED <<ledger, cabled, dl_vars, main_vars, pb_vars, cat_vars>>

\* the process ends and the next one constructs its own PreviousIngests
NewProcess ==
    /\ Len(ops) < MaxOps
    /\ ledger' = PreviousIngests_init
    /\ ops' = Append(ops, [op |-> "new"])
    /\ UNCHANGED <<files, cabled, dl_vars, main_vars, pb_vars, cat_vars>>

LedgerNext == Gate \/ Load \/ Persist \/ NewProcess

SpecLedger == LedgerInit /\ [][LedgerNext]_vars

----------------------------------------------------------------------------
(* The driver catalog.  A row of the table is a record of its three columns *)
(* 'Reference Designator' (refdes), 'Type' and 'Driver'.                     *)

\* what shift(1) puts in the first row
NaN == "NaN"

Row(refdes, type, drv) == [refdes |-> refdes, Type |-> type, Driver |-> drv]

\* the tables the remote list may hold
RawTables ==
    { <<Row(RefA, "datalog", "hydlf")>>,
      <<Row(RefA, "datalog", "hydlf"), Row(RefA, "chunky", "hydlf"),
        Row(RefB, "None", "vadcp")>>,
      <<Row(RefB, "None", "vadcp"), Row(RefA, "datalog", "hydlf")>> }

\* df.loc[df['Type'] == 'None', ['Type']] = df['Reference Designator']
TypeFromRefdes(df) ==
    [i \in DOMAIN df |->
        IF df[i].Type = "None" THEN [df[i] EXCEPT !.Type = df[i].refdes] ELSE df[i]]

\* a variant that leaves the 'Reference Designator' column as it was read
RefdesKept(df) == df

\* df.loc[df['Reference Designator'] == df['Type'], ['Reference Designator']]
\*     = df['Reference Designator'].shift(1)
RefdesFromRowAbove(df) ==
    [i \in DOMAIN df |->
        IF df[i].refdes = df[i].Type
        THEN [df[i] EXCEPT !.refdes = IF i = 1 THEN NaN ELSE df[i - 1].refdes]
        ELSE df[i]]

request_cabled_raw(raw) == RefdesFromRowAbove(TypeFromRefdes(raw))

is_cabled(df, refdes) == \E i \in DOMAIN df : df[i].refdes = refdes

----------------------------------------------------------------------------
(* The collaborators in list_missing_dates: what they may return.            *)

\* how many intervals the gap reporter returns for one refdes
MaxGaps == 2

\* get_refdes_list(server)
RefdesLists == {<<>>, <<RefA>>, <<RefB>>, <<RefA, RefB>>}

\* get_missing_data_list(refdes, server)
GapLists ==
    UNION {[1..n -> GapIntervals] : n \in 0..MaxGaps}

----------------------------------------------------------------------------
(* main                                                                      *)

\* how many runs follow one another
MaxRuns == 2

\* a variant of the gate call that answers: it records the interval under
\* refdes (a missing key counting as an empty list) and returns False when
\* the interval is new, True when it was recorded before
MainGateCallPerInterval(mapping, refdes, missing_date) ==
    IF refdes \in DOMAIN mapping /\ InList(missing_date, mapping[refdes])
    THEN [outcome |-> "True", previous_ingests |-> mapping]
    ELSE [outcome |-> "False",
          previous_ingests |->
              [r \in (DOMAIN mapping) \cup {refdes} |->
                  IF r = refdes
                  THEN (IF r \in DOMAIN mapping THEN mapping[r] ELSE <<>>)
                       \o <<missing_date>>
                  ELSE mapping[r]]]

\* line 204: is_in_previous_ingests(previous_ingests, refdes, missing_date).
\* The module binds no such name (the function of that name is a method of
\* PreviousIngests), so evaluating the call raises NameError.
MainGateCall(mapping, refdes, missing_date) ==
    [outcome |-> "NameError", previous_ingests |-> mapping]

\* line 185: load_previous_ingests().  No such module-level name: NameError.
MainLoadCall(fs) == [outcome |-> "NameError", previous_ingests |-> EmptyDict]

MainInit ==
    /\ pc = "start"
    /\ run = 1
    /\ exc = "none"
    /\ files \in InitFiles
    /\ previous_ingests = EmptyDict
    /\ cabled = <<>>
    /\ refdes_list = <<>>
    /\ acq_i = 1
    /\ missing_data_dict = EmptyDict
    /\ it_rest = {}
    /\ it_ref = "none"
    /\ it_dates = <<>>
    /\ submitted = <<>>
    /\ DatesIdle
    /\ LedgerIdle
    /\ PlaybackIdle
    /\ CatalogIdle

\* lines 177-185
MainStart ==
    /\ pc = "start"
    /\ IF LoadFileName \in DOMAIN files
       THEN LET r == MainLoadCall(files) IN
            IF r.outcome = "returned"
            THEN /\ previous_ingests' = r.previous_ingests
                 /\ pc' = "catalog"
                 /\ exc' = exc
            ELSE /\ pc' = "crashed"
                 /\ exc' = r.outcome
                 /\ previous_ingests' = EmptyDict
       ELSE /\ previous_ingests' = EmptyDict
            /\ pc' = "catalog"
            /\ exc' = exc
    /\ UNCHANGED <<run, cabled, refdes_list, acq_i, missing_data_dict, it_rest,
                   it_ref, it_dates, submitted, files, dl_vars, lg_vars, pb_vars, cat_vars>>

\* a variant in which main goes on after a failed request
FailureIgnored == "refdes"

\* where main is after request_cabled_raw raised: nothing in main catches
\* the error, so it ends the run
RequestFailed == "crashed"

\* line 187: the request fails, or the table is read and rewritten
MainLoadCatalog ==
    /\ pc = "catalog"
    /\ \/ /\ pc' = RequestFailed
          /\ exc' = "CatalogError"
          /\ cabled' = cabled
       \/ \E raw \in RawTables :
              /\ cabled' = request_cabled_raw(raw)
              /\ pc' = "refdes"
              /\ exc' = exc
    /\ UNCHANGED <<run, previous_ingests, refdes_list, acq_i, missing_data_dict,
                   it_rest, it_ref, it_dates, submitted, files, dl_vars, lg_vars, pb_vars, cat_vars>>

\* lines 188-192
MainGetRefdes ==
    /\ pc = "refdes"
    /\ \E l \in RefdesLists : refdes_list' = l
    /\ missing_data_dict' = EmptyDict
    /\ acq_i' = 1
    /\ pc' = "acquire"
    /\ UNCHANGED <<run, exc, previous_ingests, cabled, it_rest, it_ref, it_dates,
                   submitted, files, dl_vars, lg_vars, pb_vars, cat_vars>>

\* lines 195-199, one refdes of the first loop
MainAcquire ==
    /\ pc = "acquire"
    /\ acq_i <= Len(refdes_list)
    /\ LET refdes == refdes_list[acq_i] IN
       IF is_cabled(cabled, refdes)
       THEN \E missing_data_list \in GapLists :
                missing_data_dict' =
                    IF missing_data_list # <<>>
                    THEN [r \in (DOMAIN missing_data_dict) \cup {refdes} |->
                             IF r = refdes THEN missing_data_list
                             ELSE missing_data_dict[r]]
                    ELSE missing_data_dict
       ELSE missing_data_dict' = missing_data_dict
    /\ acq_i' = acq_i + 1
    /\ UNCHANGED <<pc, run, exc, previous_ingests, cabled, refdes_list, it_rest,
                   it_ref, it_dates, submitted, files, dl_vars, lg_vars, pb_vars, cat_vars>>

\* line 202: the second loop starts over the items of missing_data_dict
MainAcquired ==
    /\ pc = "acquire"
    /\ acq_i > Len(refdes_list)
    /\ pc' = "ingest"
    /\ it_rest' = DOMAIN missing_data_dict
    /\ it_dates' = <<>>
    /\ UNCHANGED <<run, exc, previous_ingests, cabled, refdes_list, acq_i,
                   missing_data_dict, it_ref, submitted, files, dl_vars, lg_vars, pb_vars, cat_vars>>

\* line 202: the next item, in the dict's own order
MainNextRefdes ==
    /\ pc = "ingest"
    /\ it_dates = <<>>
    /\ \E refdes \in it_rest :
        /\ it_ref' = refdes
        /\ it_dates' = missing_data_dict[refdes]
        /\ it_rest' = it_rest \ {refdes}
    /\ UNCHANGED <<pc, run, exc, previous_ingests, cabled, refdes_list, acq_i,
                   missing_data_dict, submitted, files, dl_vars, lg_vars, pb_vars, cat_vars>>

\* lines 203-207, one missing date: the gate, and behind it date_list and
\* playback, which returns or lets a TimeoutException out
MainGate ==
    /\ pc = "ingest"
    /\ it_dates # <<>>
    /\ LET missing_date == Head(it_dates)
           r == MainGateCall(previous_ingests, it_ref, missing_date)
       IN IF r.outcome \notin {"True", "False"}
          THEN /\ pc' = "crashed"
               /\ exc' = r.outcome
               /\ UNCHANGED <<previous_ingests, it_dates, submitted>>
          ELSE /\ previous_ingests' = r.previous_ingests
               /\ it_dates' = Tail(it_dates)
               /\ IF r.outcome = "False"
                  THEN /\ submitted' =
                           Append(submitted,
                                  [refdes |-> it_ref,
                                   dates |-> date_list(missing_date[1], missing_date[2])])
                       /\ \/ pc' = pc /\ exc' = exc
                          \/ pc' = "crashed" /\ exc' = "TimeoutException"
                  ELSE UNCHANGED <<submitted, pc, exc>>
    /\ UNCHANGED <<run, cabled, refdes_list, acq_i, missing_data_dict, it_rest,
                   it_ref, files, dl_vars, lg_vars, pb_vars, cat_vars>>

\* the second loop is over: main returns
MainDone ==
    /\ pc = "ingest"
    /\ it_dates = <<>>
    /\ it_rest = {}
    /\ pc' = "done"
    /\ UNCHANGED <<run, exc, previous_ingests, cabled, refdes_list, acq_i,
                   missing_data_dict, it_rest, it_ref, it_dates, submitted, files,
                   dl_vars, lg_vars, pb_vars, cat_vars>>

\* the tool is started again, in the directory the last run left
NextRun ==
    /\ pc \in {"done", "crashed"}
    /\ run < MaxRuns
    /\ run' = run + 1
    /\ pc' = "start"
    /\ exc' = "none"
    /\ previous_ingests' = EmptyDict
    /\ cabled' = <<>>
    /\ refdes_list' = <<>>
    /\ acq_i' = 1
    /\ missing_data_dict' = EmptyDict
    /\ it_rest' = {}
    /\ it_ref' = "none"
    /\ it_dates' = <<>>
    /\ submitted' = <<>>
    /\ UNCHANGED <<files, dl_vars, lg_vars, pb_vars, cat_vars>>

Next ==
    \/ MainStart
    \/ MainLoadCatalog
    \/ MainGetRefdes
    \/ MainAcquire
    \/ MainAcquired
    \/ MainNextRefdes
    \/ MainGate
    \/ MainDone
    \/ NextRun

Init == MainInit

Spec == Init /\ [][Next]_vars

----------------------------------------------------------------------------
(* playback                                                                  *)

\* get_driver(refdes): ...['Driver'].iloc[0], IndexError when no row matches
get_driver(df, refdes) ==
    IF is_cabled(df, refdes)
    THEN df[CHOOSE i \in DOMAIN df :
                /\ df[i].refdes = refdes
                /\ \A j \in DOMAIN df : df[j].refdes = refdes => i <= j].Driver
    ELSE "IndexError"

RECURSIVE get_reader_type_from(_, _, _)
get_reader_type_from(df, refdes, i) ==
    IF i > Len(df) THEN <<>>
    ELSE (IF df[i].refdes = refdes /\ df[i].Type # "nan" THEN <<df[i].Type>> ELSE <<>>)
         \o get_reader_type_from(df, refdes, i + 1)

\* get_reader_type(refdes)
get_reader_type(df, refdes) == get_reader_type_from(df, refdes, 1)

\* the lists of labels playback is called with
PlaybackDateLists == {date_list(g[1], g[2]) : g \in GapIntervals}

\* a variant with the loops exchanged: the next reader for the same date, or
\* the first reader for the next date
AfterPairDateMajor(ri, di) ==
    IF ri < Len(reader_list) THEN <<ri + 1, di>>
    ELSE IF di < Len(pb_dates) THEN <<1, di + 1>>
    ELSE <<Len(reader_list) + 1, 1>>

\* the loop indices after the pair <<ri, di>>: the next date, or the first
\* date of the next reader
AfterPair(ri, di) ==
    IF di < Len(pb_dates) THEN <<ri, di + 1>> ELSE <<ri + 1, 1>>

\* a variant in which a pair, once dealt with, empties the mapping
LedgerCleared(mapping, refdes, date) == PreviousIngests_init

\* lines 127-147 hold no statement on a PreviousIngests object or on a pickle
\* file: after a pair, whatever became of it, the mapping is the one before it
LedgerAfterPair(mapping, refdes, date) == mapping

PlaybackInit ==
    /\ pb_pc = "entry"
    /\ cabled \in {request_cabled_raw(raw) : raw \in RawTables}
    /\ pb_refdes \in {r \in Refs : is_cabled(cabled, r)}
    /\ pb_dates \in PlaybackDateLists
    /\ dirs \in SUBSET {pb_dates[j] : j \in 1..Len(pb_dates)}
    /\ driver = "none"
    /\ reader_list = <<>>
    /\ reader_i = 1
    /\ date_i = 1
    /\ alarm = FALSE
    /\ invoked = <<>>
    /\ children = {}
    /\ warned = {}
    /\ pb_exc = "none"
    /\ files \in InitFiles
    /\ ledger \in ArgMappings
    /\ ops = <<>>
    /\ DatesIdle
    /\ MainIdle
    /\ CatalogIdle

\* lines 120-125: the locals, and the handler for SIGALRM
PlaybackEnter ==
    /\ pb_pc = "entry"
    /\ driver' = get_driver(cabled, pb_refdes)
    /\ reader_list' = get_reader_type(cabled, pb_refdes)
    /\ reader_i' = 1
    /\ date_i' = 1
    /\ pb_pc' = "loop"
    /\ UNCHANGED <<pb_refdes, pb_dates, dirs, alarm, invoked, children, warned, pb_exc,
                   files, cabled, dl_vars, lg_vars, main_vars, cat_vars>>

\* lines 128-133: the glob of this pair matches nothing
PlaybackSkip ==
    /\ pb_pc = "loop"
    /\ reader_i <= Len(reader_list)
    /\ pb_dates[date_i] \notin dirs
    /\ reader_i' = AfterPair(reader_i, date_i)[1]
    /\ date_i' = AfterPair(reader_i, date_i)[2]
    /\ ledger' = LedgerAfterPair(ledger, pb_refdes, pb_dates[date_i])
    /\ UNCHANGED <<pb_pc, pb_refdes, pb_dates, dirs, driver, reader_list, alarm,
                   invoked, children, warned, pb_exc,
                   files, cabled, dl_vars, ops, main_vars, cat_vars>>

\* lines 133-142: the glob matches, the command is logged, signal.alarm(90),
\* and call(playback_command, shell=True) starts the process
PlaybackCall ==
    /\ pb_pc = "loop"
    /\ reader_i <= Len(reader_list)
    /\ pb_dates[date_i] \in dirs
    /\ alarm' = TRUE
    /\ invoked' = Append(invoked, <<reader_list[reader_i], pb_dates[date_i]>>)
    /\ children' = children \cup {Len(invoked) + 1}
    /\ pb_pc' = "in_call"
    /\ UNCHANGED <<pb_refdes, pb_dates, dirs, driver, reader_list, reader_i, date_i,
                   warned, pb_exc,
                   files, cabled, dl_vars, lg_vars, main_vars, cat_vars>>

\* line 142: the process exits and call returns; the else clause is next
CallReturns ==
    /\ pb_pc = "in_call"
    /\ children' = children \ {Len(invoked)}
    /\ pb_pc' = "else"
    /\ UNCHANGED <<pb_refdes, pb_dates, dirs, driver, reader_list, reader_i, date_i,
                   alarm, invoked, warned, pb_exc,
                   files, cabled, dl_vars, lg_vars, main_vars, cat_vars>>

\* line 147: signal.alarm(0), then the next pair
PlaybackCancel ==
    /\ pb_pc = "else"
    /\ alarm' = FALSE
    /\ reader_i' = AfterPair(reader_i, date_i)[1]
    /\ date_i' = AfterPair(reader_i, date_i)[2]
    /\ pb_pc' = "loop"
    /\ ledger' = LedgerAfterPair(ledger, pb_refdes, pb_dates[date_i])
    /\ UNCHANGED <<pb_refdes, pb_dates, dirs, driver, reader_list,
                   invoked, children, warned, pb_exc,
                   files, cabled, dl_vars, ops, main_vars, cat_vars>>

\* a variant without the except clause
CaughtNowhere(p) == FALSE

\* where a TimeoutException raised at position p goes: the except clause of
\* lines 143-145 covers the try body (line 142) only
Caught(p) == p = "in_call"

\* the pending SIGALRM is delivered: timeout_handler raises TimeoutException
\* in whatever statement is running.  In the call it is caught (warning,
\* continue; the process is left running); elsewhere it leaves playback.
AlarmFires ==
    /\ alarm
    /\ pb_pc \in {"in_call", "else"}
    /\ alarm' = FALSE
    /\ IF Caught(pb_pc)
       THEN /\ warned' = warned \cup {Len(invoked)}
            /\ reader_i' = AfterPair(reader_i, date_i)[1]
            /\ date_i' = AfterPair(reader_i, date_i)[2]
            /\ pb_pc' = "loop"
            /\ pb_exc' = pb_exc
       ELSE /\ pb_pc' = "raised"
            /\ pb_exc' = "TimeoutException"
            /\ UNCHANGED <<warned, reader_i, date_i>>
    /\ ledger' = LedgerAfterPair(ledger, pb_refdes, pb_dates[date_i])
    /\ UNCHANGED <<pb_refdes, pb_dates, dirs, driver, reader_list, invoked, children,
                   files, cabled, dl_vars, ops, main_vars, cat_vars>>

\* a process whose wait was abandoned exits by itself
ChildExit ==
    /\ \E c \in children :
        /\ ~(pb_pc = "in_call" /\ c = Len(invoked))
        /\ children' = children \ {c}
    /\ UNCHANGED <<pb_pc, pb_refdes, pb_dates, dirs, driver, reader_list, reader_i,
                   date_i, alarm, invoked, warned, pb_exc,
                   files, cabled, dl_vars, lg_vars, main_vars, cat_vars>>

\* both loops are over
PlaybackReturn ==
    /\ pb_pc = "loop"
    /\ reader_i > Len(reader_list)
    /\ pb_pc' = "returned"
    /\ UNCHANGED <<pb_refdes, pb_dates, dirs, driver, reader_list, reader_i, date_i,
                   alarm, invoked, children, warned, pb_exc,
                   files, cabled, dl_vars, lg_vars, main_vars, cat_vars>>

PlaybackNext ==
    \/ PlaybackEnter
    \/ PlaybackSkip
    \/ PlaybackCall
    \/ CallReturns
    \/ PlaybackCancel
    \/ AlarmFires
    \/ ChildExit
    \/ PlaybackReturn

SpecPlayback == PlaybackInit /\ [][PlaybackNext]_vars

\* the pairs <<reader, date>> whose glob matches
MatchedPairs ==
    {<<reader_list[i], pb_dates[j]>> :
        i \in 1..Len(reader_list), j \in {k \in 1..Len(pb_dates) : pb_dates[k] \in dirs}}

\* C10: a timeout never leaves playback, and when playback is over every
\* matched pair has been invoked, whenever the alarm fired.
C10_TimeoutContained ==
    /\ pb_exc # "TimeoutException"
    /\ pb_pc \in {"returned", "raised"} =>
           \A pair \in MatchedPairs : InList(pair, invoked)

----------------------------------------------------------------------------
(* The catalog on its own: any table, one call of request_cabled_raw, then   *)
(* the lookups.                                                              *)

\* how many rows a table has at most
MaxRows == 3

\* the driver column, one driver per reference designator
DriverOf(refdes) == IF refdes = RefA THEN "hydlf" ELSE "vadcp"

\* the values of the Type column: 'None', two reader types, and 'nan', which
\* is what a missing field reads as
RawTypes == {"None", "datalog", "chunky", "nan"}

CatalogRows == {Row(r, t, DriverOf(r)) : r \in Refs, t \in RawTypes}

CatalogTables == UNION {[1..n -> CatalogRows] : n \in 0..MaxRows}

CatalogInit ==
    /\ cat_pc = "ready"
    /\ cat_raw \in CatalogTables
    /\ cabled = <<>>
    /\ files = NoFiles
    /\ DatesIdle
    /\ LedgerIdle
    /\ MainIdle
    /\ PlaybackIdle

\* line 187: Cabled.cabled_drivers_raw = request_cabled_raw()
CatalogLoad ==
    /\ cat_pc = "ready"
    /\ cabled' = request_cabled_raw(cat_raw)
    /\ cat_pc' = "loaded"
    /\ UNCHANGED <<cat_raw, files, dl_vars, lg_vars, main_vars, pb_vars>>

CatalogNext == CatalogLoad

SpecCatalog == CatalogInit /\ [][CatalogNext]_vars

\* the rows of the source table whose Type is 'None'
NoneRows == {i \in DOMAIN cat_raw : cat_raw[i].Type = "None"}

\* C11 as stated: a row whose Type is 'None' gives its own reference
\* designator exactly one reader type, the designator itself, and makes it
\* cabled.
C11_DegenerateRow ==
    cat_pc = "loaded" =>
        \A i \in NoneRows :
            /\ get_reader_type(cabled, cat_raw[i].refdes) = <<cat_raw[i].refdes>>
            /\ is_cabled(cabled, cat_raw[i].refdes)

\* C11 as amended: a row whose Type is 'None' is attached to the row above.
\* Its Type becomes its own reference designator string and its reference
\* designator becomes that of the row above in the source (NaN in the first
\* row), so the designator of the row above is cabled and has the row's own
\* string among its reader types.
C11_RowJoinsRowAbove ==
    cat_pc = "loaded" =>
        \A i \in NoneRows :
            /\ cabled[i].Type = cat_raw[i].refdes
            /\ cabled[i].refdes = (IF i = 1 THEN NaN ELSE cat_raw[i - 1].refdes)
            /\ i > 1 =>
                   /\ is_cabled(cabled, cat_raw[i - 1].refdes)
                   /\ InList(cat_raw[i].refdes,
                             get_reader_type(cabled, cat_raw[i - 1].refdes))

\* a loaded table with a 'None' row under a row of another designator
C11_Witness ==
    /\ cat_pc = "loaded"
    /\ \E i \in NoneRows :
           /\ i > 1
           /\ cat_raw[i - 1].refdes # cat_raw[i].refdes
           /\ cat_raw[i - 1].Type # "None"
           /\ ~is_cabled(cabled, cat_raw[i].refdes)

RECURSIVE Dedup(_)
\* a list without its repeated elements, first occurrences kept in order
Dedup(list) ==
    IF list = <<>> THEN <<>>
    ELSE LET front == Dedup(SubSeq(list, 1, Len(list) - 1))
             last == list[Len(list)]
         IN IF InList(last, front) THEN front ELSE Append(front, last)

RECURSIVE TypesOf(_, _, _)
\* the Type values of the rows of df for refdes, in file order, 'nan' left out
TypesOf(df, refdes, i) ==
    IF i > Len(df) THEN <<>>
    ELSE (IF df[i].refdes = refdes /\ df[i].Type # "nan" THEN <<df[i].Type>> ELSE <<>>)
         \o TypesOf(df, refdes, i + 1)

\* C12: get_reader_type returns the Type values of the rows of the
\* designator in file order, without duplicates and without 'nan'.
C12_ReaderTypesFolded ==
    cat_pc = "loaded" =>
        \A refdes \in Refs :
            get_reader_type(cabled, refdes) = Dedup(TypesOf(cabled, refdes, 1))

----------------------------------------------------------------------------
\* the labels of a list of labels
Labels(dates) == {dates[j] : j \in 1..Len(dates)}

\* the labels the interval (begin, end) expands to
Expansion(missing_date) == Labels(date_list(missing_date[1], missing_date[2]))

\* the places <<call, index>> of the labels handed to playback in this run
Positions ==
    UNION {{<<i, j>> : j \in 1..Len(submitted[i].dates)} : i \in 1..Len(submitted)}

\* the labels handed to playback for refdes in this run
SubmittedLabels(refdes) ==
    UNION {Labels(submitted[i].dates) :
               i \in {k \in 1..Len(submitted) : submitted[k].refdes = refdes}}

\* the labels a pickle file in the working directory records for refdes
RecordedIn(fs, name, refdes) ==
    IF name \in DOMAIN fs /\ refdes \in DOMAIN pickle_load(fs[name])
    THEN UNION {Expansion(pickle_load(fs[name])[refdes][k]) :
                    k \in 1..Len(pickle_load(fs[name])[refdes])}
    ELSE {}

\* the ledger a run finds when it starts, under either file name
LedgerAtStart(refdes) ==
    RecordedIn(files, LoadFileName, refdes) \cup RecordedIn(files, WriteFileName, refdes)

C3_PersistedAtExit ==
    pc = "done" =>
        /\ WriteFileName \in DOMAIN files
        /\ \A refdes \in Refs :
               SubmittedLabels(refdes) \subseteq RecordedIn(files, WriteFileName, refdes)

\* C4: when a run is over, every label of every interval kept for a cabled
\* refdes that was not in the ledger at the start has been handed to playback.
C4_NoUngatedDropped ==
    pc \in {"done", "crashed"} =>
        \A refdes \in DOMAIN missing_data_dict :
            \A k \in DOMAIN missing_data_dict[refdes] :
                (Expansion(missing_data_dict[refdes][k]) \ LedgerAtStart(refdes))
                    \subseteq SubmittedLabels(refdes)

\* C13: a run whose catalog load failed has ended there: nothing after
\* line 187 has run and no playback was called.
C13_CatalogFailureAborts ==
    exc = "CatalogError" =>
        /\ pc = "crashed"
        /\ refdes_list = <<>>
        /\ missing_data_dict = EmptyDict
        /\ submitted = <<>>

\* a run whose catalog request failed
C13_Witness ==
    /\ exc = "CatalogError"
    /\ pc = "crashed"
    /\ cabled = <<>>

----------------------------------------------------------------------------
\* C5: for a pair not yet in the ledger, two gate calls in succession answer
\* "should attempt" (False) and then "should not attempt" (True), and the
\* mapping then holds exactly one record of the pair.
C5_GateTwice ==
    \A i \in 1..(Len(ops) - 1) :
        ( /\ ops[i].op = "gate"
          /\ ops[i + 1].op = "gate"
          /\ ops[i + 1].refdes = ops[i].refdes
          /\ ops[i + 1].missing_date = ops[i].missing_date
          /\ ~ops[i].was_in )
        => /\ ops[i].outcome = "False"
           /\ ops[i + 1].outcome = "True"
           /\ ops[i].refdes \in DOMAIN ops[i + 1].after
           /\ Count(ops[i].missing_date, ops[i + 1].after[ops[i].refdes]) = 1

\* C6: a mapping that is persisted and then loaded by a new process comes
\* back: the load succeeds and the new process holds the persisted mapping.
C6_RoundTrip ==
    \A i \in 1..(Len(ops) - 2) :
        ( /\ ops[i].op = "write"
          /\ ops[i + 1].op = "new"
          /\ ops[i + 2].op = "load" )
        => /\ ops[i + 2].outcome # "IOError"
           /\ ops[i + 2].after = ops[i].arg

\* C7: no step removes a recorded entry, from the mapping in memory (a new
\* process starts from what it loads) or from the persisted store.
C7_AppendOnly ==
    [][ /\ (ledger # ledger' /\ ops'[Len(ops')].op # "new") => Keeps(ledger, ledger')
        /\ Keeps(Stored(files), Stored(files')) ]_vars

----------------------------------------------------------------------------
(* The interval expander on its own: any two timestamps, one call.           *)

DatesInit ==
    /\ dl_pc = "ready"
    /\ dl_first \in Timestamps
    /\ dl_second \in Timestamps
    /\ dl_out = <<>>
    /\ files = NoFiles
    /\ LedgerIdle
    /\ MainIdle
    /\ cabled = <<>>
    /\ PlaybackIdle
    /\ CatalogIdle

CallDateList ==
    /\ dl_pc = "ready"
    /\ dl_out' = date_list(dl_first, dl_second)
    /\ dl_pc' = "returned"
    /\ UNCHANGED <<dl_first, dl_second, files, cabled, lg_vars, main_vars, pb_vars, cat_vars>>

DatesNext == CallDateList

SpecDates == DatesInit /\ [][DatesNext]_vars

----------------------------------------------------------------------------
\* C8: for timestamps s <= e, date_list(s, e) starts at the hour of s, ends at
\* an hour >= the hour of e, and each label is one hour after the previous one.
C8_ExpandShape ==
    (dl_pc = "returned" /\ ~StrLess(dl_second, dl_first)) =>
        /\ Len(dl_out) >= 1
        /\ dl_out[1] = <<dl_first[1], dl_first[2]>>
        /\ LabelHour(dl_out[Len(dl_out)]) >= LabelHour(<<dl_second[1], dl_second[2]>>)
        /\ \A i \in 1..(Len(dl_out) - 1) :
               LabelHour(dl_out[i + 1]) = LabelHour(dl_out[i]) + 1

\* a call with s strictly before e, off the hour boundary, that crossed midnight
C8_Witness ==
    /\ dl_pc = "returned"
    /\ StrLess(dl_first, dl_second)
    /\ dl_first[3] # 0
    /\ dl_second[4] # 0
    /\ dl_first[1] < dl_second[1]
    /\ Len(dl_out) > 2

\* C9: date_list(s, s) returns exactly one label, the hour of s.
C9_Degenerate ==
    (dl_pc = "returned" /\ dl_first = dl_second) =>
        dl_out = <<<<dl_first[1], dl_first[2]>>>>

\* a call with both arguments the same timestamp, not on the hour
C9_Witness ==
    /\ dl_pc = "returned"
    /\ dl_first = dl_second
    /\ dl_first[3] # 0
    /\ Len(dl_out) = 1

\* the top of the hour of a datetime
TopOfHour(t) == t - (t % SecondsPerHour)

RECURSIVE ExpandFrom(_, _, _)
\* the labels of t, t + 1h, ... up to the first of them at or after end_date
ExpandFrom(t, end_date, date_times) ==
    IF t < end_date
    THEN ExpandFrom(t + SecondsPerHour, end_date,
                    Append(date_times, strftime(t + SecondsPerHour)))
    ELSE date_times

\* C14 as stated: date_list returns what the algorithm that runs from the
\* start truncated to the top of its hour returns.
C14_FromTruncatedStart ==
    dl_pc = "returned" =>
        LET t0 == TopOfHour(strptime(start_of(dl_first, dl_second)))
            e == strptime(end_of(dl_first, dl_second))
        IN dl_out = ExpandFrom(t0, e, <<strftime(t0)>>)

\* C14 as amended: the running timestamp is the start itself, not truncated.
\* The k-th label is the hour of start + (k - 1) hours, and the list ends with
\* the first of these timestamps that is at or after end.
C14_FromStartItself ==
    dl_pc = "returned" =>
        LET s == strptime(start_of(dl_first, dl_second))
            e == strptime(end_of(dl_first, dl_second))
            n == Len(dl_out)
        IN /\ n >= 1
           /\ \A k \in 1..n : dl_out[k] = strftime(s + (k - 1) * SecondsPerHour)
           /\ s + (n - 1) * SecondsPerHour >= e
           /\ n > 1 => s + (n - 2) * SecondsPerHour < e

\* a start off the hour for which counting from the truncated start would
\* give one more label: 00:30:00 to 01:00:59 returns two labels
C14_Witness ==
    /\ dl_pc = "returned"
    /\ dl_first = <<0, 0, 30, 0>>
    /\ dl_second = <<0, 1, 0, 59>>
    /\ dl_out = <<<<0, 0>>, <<0, 1>>>>

----------------------------------------------------------------------------
(* playback with an external program that never exits: call never returns   *)
(* and no process ever ends.  The interpreter runs on and the kernel         *)
(* delivers the SIGALRM armed at line 140, hence the weak fairness.          *)

HangNext ==
    \/ PlaybackEnter
    \/ PlaybackSkip
    \/ PlaybackCall
    \/ AlarmFires
    \/ PlaybackReturn

SpecPlaybackHang == PlaybackInit /\ [][HangNext]_vars /\ WF_vars(HangNext)

\* the index pairs <<reader, date>> of the two loops, readers outermost
AllPairs ==
    [k \in 1..(Len(reader_list) * Len(pb_dates)) |->
        <<((k - 1) \div Len(pb_dates)) + 1, ((k - 1) % Len(pb_dates)) + 1>>]

\* the matched pairs in that order, as <<reader type, label>>
MatchedInOrder ==
    LET sel == SelectSeq(AllPairs, LAMBDA q : pb_dates[q[2]] \in dirs)
    IN [k \in 1..Len(sel) |-> <<reader_list[sel[k][1]], pb_dates[sel[k][2]]>>]

\* C15: at most one process started by playback is running at any moment,
\* the processes whose wait was abandoned included.
C15_OneProcessAtATime == Cardinality(children) <= 1

\* C16: the invocations made so far are the first ones of the matched pairs
\* taken reader by reader and, for one reader, label by label in list order.
C16_ReaderMajor ==
    /\ Len(invoked) <= Len(MatchedInOrder)
    /\ \A k \in 1..Len(invoked) : invoked[k] = MatchedInOrder[k]

\* two readers, a skipped label, a timeout and a completed invocation
C16_Witness ==
    /\ pb_pc = "returned"
    /\ Len(reader_list) >= 2
    /\ \E j \in 1..Len(pb_dates) : pb_dates[j] \notin dirs
    /\ warned # {}
    /\ Len(invoked) >= 4
    /\ Len(invoked) > Cardinality(warned)

\* C17: when a call of playback is over, one process was started for each
\* matched pair and none for any other pair.
C17_OnePerMatchedPair ==
    pb_pc \in {"returned", "raised"} => invoked = MatchedInOrder

\* C18: with a program that never exits, playback eventually returns, with
\* every matched pair invoked and every wait abandoned by the timeout.
C18_HangTerminates ==
    <>( /\ pb_pc = "returned"
        /\ invoked = MatchedInOrder
        /\ warned = 1..Len(invoked) )

\* playback has returned while every process it started is still running
C18_Witness ==
    /\ pb_pc = "returned"
    /\ Len(invoked) >= 2
    /\ children = 1..Len(invoked)
    /\ warned = children

\* C19: no step of playback changes the mapping or the pickle files.
C19_LedgerUntouched == [][ledger' = ledger /\ files' = files]_vars

\* playback has returned after a skipped pair, a timeout and a completed
\* invocation, with a mapping and a file that hold records
C19_Witness ==
    /\ pb_pc = "returned"
    /\ DOMAIN ledger # {}
    /\ DOMAIN files # {}
    /\ \E j \in 1..Len(pb_dates) : pb_dates[j] \notin dirs
    /\ warned # {}
    /\ Len(invoked) > Cardinality(warned)
    /\ Len(reader_list) = 1

====
